---- MODULE Spec2Model ----
(***************************************************************************)
(* CafeFinder (src/script.js): geolocation with a 10 minute cache, one     *)
(* Overpass query per search, normalisation of the returned elements       *)
(* (named, first-seen identifier), display of the first five as cards,     *)
(* and the saved list in localStorage.                                     *)
(*                                                                         *)
(* script.js holds the program twice: lines 1-315 (OpenStreetMap Overpass) *)
(* and lines 317-576 (a Google Places copy of the same functions, which    *)
(* does not parse: line 550).  The model is of the Overpass program, lines *)
(* 1-315: it is the one with tags, lat/lon, the name filter, the seenIds   *)
(* pass and the address built from addr:* tags.  saveCafe, showSaved,      *)
(* showLoading and getLocation are the same text in both copies.           *)
(*                                                                         *)
(* localStorage values are kept in parsed form: the stored values are      *)
(* objects and arrays of finite numbers and strings, which                 *)
(* JSON.parse(JSON.stringify(v)) returns unchanged; an absent key is the   *)
(* default the code substitutes ('{}' or '[]').                            *)
(***************************************************************************)
EXTENDS Integers, Sequences, FiniteSets, TLC

(* ---------------- program constants ---------------- *)
Minute == 60 * 1000
CacheMaxAge == 10 * 60 * 1000
DisplayLimit == 5
SearchRadius == 1500
AddressNotAvailable == "Address not available"
LocationDeniedMsg == "Please enable location access to find nearby cafes."
UnsupportedMsg == "Geolocation is not supported by your browser."

(* ---------------- bounds of the model ---------------- *)
MaxCalls == 2
MaxMinutes == 10
MaxSaves == 2
MaxHead == 1
MaxBody == 6
MaxTail == 1

StartTime == Minute
TickMinutes == {5, 9}
Positions == {[lat |-> 51, lng |-> 7], [lat |-> 52, lng |-> 8]}

Min(a, b) == IF a < b THEN a ELSE b

SeqsUpTo(S, n) == UNION {[1..k -> S] : k \in 0..n}

(* ---------------- JavaScript values ---------------- *)
\* {} : the object without properties
EmptyObject == [k \in {} |-> ""]

\* obj[key] as a value that can be compared with ===: <<v>> when the
\* property exists, << >> (undefined) when it does not
Prop(obj, key) == IF key \in DOMAIN obj THEN <<obj[key]>> ELSE << >>

\* truthiness of obj[key] for string-valued properties:
\* undefined and "" are falsy
Truthy(obj, key) == key \in DOMAIN obj /\ obj[key] # ""

(* ---------------- normalisation (useLocation, lines 103-122) ---------- *)
\* Address with the house number before the street
AddressStreetLast(tags) ==
    IF Truthy(tags, "addr:street")
    THEN (IF Truthy(tags, "addr:housenumber")
          THEN tags["addr:housenumber"] \o " " ELSE "") \o tags["addr:street"]
    ELSE AddressNotAvailable

Address(tags) ==
    IF Truthy(tags, "addr:street")
    THEN tags["addr:street"] \o
         (IF Truthy(tags, "addr:housenumber")
          THEN " " \o tags["addr:housenumber"] ELSE "")
    ELSE AddressNotAvailable

\* Keeps without the seenIds test
KeepsDuplicates(cafe, seenIds) ==
    /\ "tags" \in DOMAIN cafe
    /\ Truthy(cafe.tags, "name")

\* Keeps with a name tag of any value, the empty one included
KeepsEmptyName(cafe, seenIds) ==
    /\ "tags" \in DOMAIN cafe
    /\ "name" \in DOMAIN cafe.tags
    /\ cafe.id \notin seenIds

\* cafe.tags && cafe.tags.name && !seenIds.has(cafe.id)
Keeps(cafe, seenIds) ==
    /\ "tags" \in DOMAIN cafe
    /\ Truthy(cafe.tags, "name")
    /\ cafe.id \notin seenIds

NormalizedCafe(cafe) ==
    [id |-> cafe.id, name |-> cafe.tags["name"], tags |-> cafe.tags,
     lat |-> cafe.lat, lon |-> cafe.lon, address |-> Address(cafe.tags)]

RECURSIVE ForEachCafe(_, _, _, _)
\* data.elements.forEach(...) from element k on, with the seenIds and
\* uniqueCafes built so far
ForEachCafe(elements, k, seenIds, uniqueCafes) ==
    IF k > Len(elements) THEN uniqueCafes
    ELSE IF Keeps(elements[k], seenIds)
         THEN ForEachCafe(elements, k + 1, seenIds \cup {elements[k].id},
                          Append(uniqueCafes, NormalizedCafe(elements[k])))
         ELSE ForEachCafe(elements, k + 1, seenIds, uniqueCafes)

UniqueCafes(elements) == ForEachCafe(elements, 1, {}, << >>)

\* data.elements && data.elements.length > 0
HasElements(data) == "elements" \in DOMAIN data /\ Len(data.elements) > 0

(* ---------------- displayCards (lines 141-209) ---------------- *)
\* CafesToShow with one card more
CafesToShowSix(cafes) == SubSeq(cafes, 1, Min(Len(cafes), DisplayLimit + 1))

\* cafes.slice(0, 5)
CafesToShow(cafes) == SubSeq(cafes, 1, Min(Len(cafes), DisplayLimit))

CafeData(cafe) ==
    [id |-> cafe.id, name |-> cafe.name, address |-> cafe.address,
     tags |-> cafe.tags, lat |-> cafe.lat, lon |-> cafe.lon]

\* the cards appended to cardsContainer, each with its swipe handlers
DisplayedCards(cafes) ==
    [k \in 1..Len(CafesToShow(cafes)) |->
        [data |-> CafeData(CafesToShow(cafes)[k]), swiped |-> FALSE]]

(* ---------------- getLocation (lines 25-59) ---------------- *)
\* CacheFresh with <= for <
CacheFreshInclusive(cache, now) ==
    /\ "timestamp" \in DOMAIN cache
    /\ cache.timestamp # 0
    /\ now - cache.timestamp <= CacheMaxAge

\* cache.timestamp && now - cache.timestamp < 10 * 60 * 1000
CacheFresh(cache, now) ==
    /\ "timestamp" \in DOMAIN cache
    /\ cache.timestamp # 0
    /\ now - cache.timestamp < CacheMaxAge

(* ---------------- saveCafe (lines 219-230) ---------------- *)
\* saveCafe without the duplicate test
AlreadySavedNever(savedList, cafe) == FALSE

\* savedCafes.some(c => c.place_id === cafe.place_id)
AlreadySaved(savedList, cafe) ==
    \E k \in 1..Len(savedList) :
        Prop(savedList[k], "place_id") = Prop(cafe, "place_id")

(* ---------------- showLoading (lines 263-273) ---------------- *)
\* the number of .loading elements after showLoading(isLoading)
ShowLoading(n, isLoading) ==
    IF isLoading /\ n = 0 THEN 1
    ELSE IF ~isLoading THEN 0 ELSE n

(* ---------------- inputs ---------------- *)
NameOf(id) == IF id = 1 THEN "Blue Cup" ELSE "Bean"

Named(id, name) ==
    [id |-> id, lat |-> 50 + id, lon |-> 7, tags |-> ("name" :> name)]
Untagged(id) == [id |-> id, lat |-> 50 + id, lon |-> 7]

\* response bodies of the main specification: no elements property, no
\* elements, only an untagged element, one cafe, two cafes
MainResponses ==
    {EmptyObject,
     [elements |-> << >>],
     [elements |-> <<Untagged(1)>>],
     [elements |-> <<Named(1, NameOf(1))>>],
     [elements |-> <<Named(1, NameOf(1)), Named(2, NameOf(2))>>]}

FailureCauses == {"transport", "status"}

\* response bodies of the single-search specification: up to MaxHead
\* arbitrary elements, then the cafes 1..k (k <= MaxBody), then up to
\* MaxTail arbitrary elements.  An arbitrary element has an identifier that
\* one of the cafes has (1) or that none has (NormOtherId), and no tags,
\* tags without a name, an empty name or a name (one name before the
\* cafes, another after them).
NormOtherId == MaxBody + 3
NormIds == {1, NormOtherId}
WithTags(id, tags) == [id |-> id, lat |-> 50 + id, lon |-> 7, tags |-> tags]
NormRecords(name) ==
    {Untagged(id) : id \in NormIds} \cup
    {WithTags(id, t) : id \in NormIds,
                       t \in {EmptyObject, "name" :> "", "name" :> name}}
BodyCafes(k) == [j \in 1..k |-> Named(j, "Corner")]

\* tags with every combination of the address fragments absent, empty or set
AddressTags ==
    {("name" :> "Blue Cup") @@ [f \in F |-> v[f]] :
        F \in SUBSET {"addr:housenumber", "addr:street", "addr:city"},
        v \in [{"addr:housenumber", "addr:street", "addr:city"} ->
                  {"", "set"}]}
FragmentValue(f) ==
    IF f = "addr:housenumber" THEN "12"
    ELSE IF f = "addr:street" THEN "Main St" ELSE "Springfield"
AddressRecords ==
    {WithTags(1, [f \in DOMAIN t |->
                    IF t[f] = "set" THEN FragmentValue(f) ELSE t[f]]) :
        t \in AddressTags}

NormResponses ==
    {EmptyObject}
    \cup {[elements |-> h \o BodyCafes(k) \o t] :
            h \in SeqsUpTo(NormRecords("Blue Cup"), MaxHead), k \in 0..MaxBody,
            t \in SeqsUpTo(NormRecords("Bean"), MaxTail)}
    \cup {[elements |-> <<r>>] : r \in AddressRecords}

(* ---------------- state ---------------- *)
VARIABLES
    clock,           \* Date.now()
    geoSupported,    \* navigator.geolocation is present
    cachedLocation,  \* localStorage 'cachedLocation', parsed
    savedCafes,      \* localStorage 'savedCafes', parsed
    calls,           \* the getLocation calls so far, each with its position;
                     \* now is the local of getLocation, 0 once no code reads it
    geoRequests,     \* calls whose getCurrentPosition callback is pending
    requests,        \* fetch requests in flight
    view,            \* what cardsContainer shows
    cards,           \* the cards in cardsContainer
    loading,         \* number of .loading elements
    alerts,          \* the alert() messages shown
    saveLog,         \* the saveCafe calls: identifier and notification
    response,        \* data of the last response handled (line 100)
    uniqueCafes      \* uniqueCafes of that handler (line 105), empty when
                     \* lines 105-122 did not run

vars == <<clock, geoSupported, cachedLocation, savedCafes, calls, geoRequests,
          requests, view, cards, loading, alerts, saveLog, response,
          uniqueCafes>>

Init ==
    /\ clock = StartTime
    /\ geoSupported \in BOOLEAN
    /\ cachedLocation = EmptyObject
    /\ savedCafes = << >>
    /\ calls = << >>
    /\ geoRequests = {}
    /\ requests = {}
    /\ view = "blank"
    /\ cards = << >>
    /\ loading = 0
    /\ alerts = << >>
    /\ saveLog = << >>
    /\ response = EmptyObject
    /\ uniqueCafes = << >>

NewCall(now) == [pc |-> "start", now |-> now, geo |-> 0, fetches |-> 0, err |-> "none"]

\* UseLocation with a second, wider query
UseLocationRetry(cs, i, lat, lng) ==
    /\ calls' = [cs EXCEPT ![i].pc = "fetching", ![i].now = 0, ![i].fetches = @ + 2]
    /\ requests' = requests \cup
          {[call |-> i, radius |-> SearchRadius, lat |-> lat, lng |-> lng],
           [call |-> i, radius |-> 2 * SearchRadius, lat |-> lat, lng |-> lng]}
    /\ view' = "blank"
    /\ cards' = << >>
    /\ loading' = 1

\* useLocation(lat, lng) up to its first await (lines 62-94), run for call
\* i of cs: showLoading(true); cardsContainer.innerHTML = '', which removes
\* every .loading element with the rest; one fresh loadingDiv is appended;
\* fetch
UseLocation(cs, i, lat, lng) ==
    /\ calls' = [cs EXCEPT ![i].pc = "fetching", ![i].now = 0, ![i].fetches = @ + 1]
    /\ requests' = requests \cup
          {[call |-> i, radius |-> SearchRadius, lat |-> lat, lng |-> lng]}
    /\ view' = "blank"
    /\ cards' = << >>
    /\ loading' = 1

\* getLocation(): DOMContentLoaded, findNewBtn or refreshBtn
GetLocation ==
    /\ Len(calls) < MaxCalls
    /\ LET i == Len(calls) + 1
           now == clock
           cs == Append(calls, NewCall(now))
       IN  IF CacheFresh(cachedLocation, now)
           THEN /\ UseLocation(cs, i, cachedLocation.lat, cachedLocation.lng)
                /\ UNCHANGED <<geoRequests, alerts>>
           ELSE IF geoSupported
           THEN /\ calls' = [cs EXCEPT ![i].pc = "locating", ![i].geo = @ + 1]
                /\ geoRequests' = geoRequests \cup {i}
                /\ loading' = ShowLoading(loading, TRUE)
                /\ UNCHANGED <<requests, view, cards, alerts>>
           ELSE /\ calls' = [cs EXCEPT ![i].pc = "locFailed", ![i].now = 0]
                /\ loading' = ShowLoading(ShowLoading(loading, TRUE), FALSE)
                /\ alerts' = Append(alerts, UnsupportedMsg)
                /\ UNCHANGED <<geoRequests, requests, view, cards>>
    /\ UNCHANGED <<clock, geoSupported, cachedLocation, savedCafes, saveLog,
                   response, uniqueCafes>>

\* the DOMContentLoaded handler (lines 11-22): the first getLocation call
DOMContentLoaded == Len(calls) = 0 /\ GetLocation

\* getCurrentPosition success callback (lines 37-46)
GeoSuccess(i, position) ==
    /\ i \in geoRequests
    /\ geoRequests' = geoRequests \ {i}
    /\ cachedLocation' = [lat |-> position.lat, lng |-> position.lng,
                          timestamp |-> calls[i].now]
    /\ UseLocation(calls, i, position.lat, position.lng)
    /\ UNCHANGED <<clock, geoSupported, savedCafes, alerts, saveLog, response,
                   uniqueCafes>>

\* GeoError without showLoading(false)
GeoErrorKeepsLoading(i) ==
    /\ i \in geoRequests
    /\ geoRequests' = geoRequests \ {i}
    /\ calls' = [calls EXCEPT ![i].pc = "locFailed", ![i].now = 0]
    /\ loading' = loading
    /\ alerts' = Append(alerts, LocationDeniedMsg)
    /\ UNCHANGED <<clock, geoSupported, cachedLocation, savedCafes, requests,
                   view, cards, saveLog, response, uniqueCafes>>

\* getCurrentPosition error callback (lines 47-51): permission denied,
\* position unavailable or timeout
GeoError(i) ==
    /\ i \in geoRequests
    /\ geoRequests' = geoRequests \ {i}
    /\ calls' = [calls EXCEPT ![i].pc = "locFailed", ![i].now = 0]
    /\ loading' = ShowLoading(loading, FALSE)
    /\ alerts' = Append(alerts, LocationDeniedMsg)
    /\ UNCHANGED <<clock, geoSupported, cachedLocation, savedCafes, requests,
                   view, cards, saveLog, response, uniqueCafes>>

\* FetchOk that drops the response of a call when a later call exists
FetchOkDropStale(r, data) ==
    /\ r \in requests
    /\ requests' = requests \ {r}
    /\ IF r.call < Len(calls)
       THEN /\ calls' = [calls EXCEPT ![r.call].pc =
                            IF HasElements(data) /\ Len(UniqueCafes(data.elements)) > 0
                            THEN "displayed" ELSE "noResults"]
            /\ UNCHANGED <<view, cards, loading, response, uniqueCafes>>
       ELSE /\ IF HasElements(data) /\ Len(UniqueCafes(data.elements)) > 0
               THEN /\ view' = "cards"
                    /\ cards' = DisplayedCards(UniqueCafes(data.elements))
                    /\ calls' = [calls EXCEPT ![r.call].pc = "displayed"]
               ELSE /\ view' = "noResults"
                    /\ cards' = << >>
                    /\ calls' = [calls EXCEPT ![r.call].pc = "noResults"]
            /\ loading' = ShowLoading(0, FALSE)
            /\ response' = data
            /\ uniqueCafes' = IF HasElements(data) THEN UniqueCafes(data.elements)
                              ELSE << >>
    /\ UNCHANGED <<clock, geoSupported, cachedLocation, savedCafes,
                   geoRequests, alerts, saveLog>>

\* useLocation after the awaits, response.ok and a parsed body (lines
\* 100-131, 135-137)
FetchOk(r, data) ==
    /\ r \in requests
    /\ requests' = requests \ {r}
    /\ IF HasElements(data) /\ Len(UniqueCafes(data.elements)) > 0
       THEN /\ view' = "cards"
            /\ cards' = DisplayedCards(UniqueCafes(data.elements))
            /\ calls' = [calls EXCEPT ![r.call].pc = "displayed"]
       ELSE /\ view' = "noResults"
            /\ cards' = << >>
            /\ calls' = [calls EXCEPT ![r.call].pc = "noResults"]
    /\ loading' = ShowLoading(0, FALSE)
    /\ response' = data
    /\ uniqueCafes' = IF HasElements(data) THEN UniqueCafes(data.elements)
                      ELSE << >>
    /\ UNCHANGED <<clock, geoSupported, cachedLocation, savedCafes,
                   geoRequests, alerts, saveLog>>

\* FetchFail that shows the text of an empty result
FetchFailAsNoResults(r, cause) ==
    /\ r \in requests
    /\ requests' = requests \ {r}
    /\ calls' = [calls EXCEPT ![r.call].pc = "failed", ![r.call].err = cause]
    /\ view' = "noResults"
    /\ cards' = << >>
    /\ loading' = ShowLoading(0, FALSE)
    /\ UNCHANGED <<clock, geoSupported, cachedLocation, savedCafes,
                   geoRequests, alerts, saveLog, response, uniqueCafes>>

\* useLocation after the await when fetch rejects or !response.ok: the
\* catch and finally blocks (lines 96-98, 132-137)
FetchFail(r, cause) ==
    /\ r \in requests
    /\ requests' = requests \ {r}
    /\ calls' = [calls EXCEPT ![r.call].pc = "failed", ![r.call].err = cause]
    /\ view' = "error"
    /\ cards' = << >>
    /\ loading' = ShowLoading(0, FALSE)
    /\ UNCHANGED <<clock, geoSupported, cachedLocation, savedCafes,
                   geoRequests, alerts, saveLog, response, uniqueCafes>>

\* the fetch of call i settles with a parsed body of bodies
Responds(i, bodies) ==
    \E r \in {q \in requests : q.call = i}, data \in bodies : FetchOk(r, data)

\* the fetch of call i rejects, or settles with a status that is not ok
Fails(i) ==
    \E r \in {q \in requests : q.call = i}, cause \in FailureCauses :
        FetchFail(r, cause)

\* swiperight on card k (lines 204-207): saveCafe(cafeData), swipeCard
SwipeRight(k) ==
    /\ k \in DOMAIN cards
    /\ Len(saveLog) < MaxSaves
    /\ LET cafe == cards[k].data
       IN  IF ~AlreadySaved(savedCafes, cafe)
           THEN /\ savedCafes' = Append(savedCafes, cafe)
                /\ saveLog' = Append(saveLog, [id |-> cafe.id, report |-> "saved"])
           ELSE /\ savedCafes' = savedCafes
                /\ saveLog' = Append(saveLog, [id |-> cafe.id, report |-> "already"])
    /\ cards' = [cards EXCEPT ![k].swiped = TRUE]
    /\ UNCHANGED <<clock, geoSupported, cachedLocation, calls, geoRequests,
                   requests, view, loading, alerts, response, uniqueCafes>>

\* swipeleft on card k (lines 200-202)
SwipeLeft(k) ==
    /\ k \in DOMAIN cards
    /\ ~cards[k].swiped
    /\ cards' = [cards EXCEPT ![k].swiped = TRUE]
    /\ UNCHANGED <<clock, geoSupported, cachedLocation, savedCafes, calls,
                   geoRequests, requests, view, loading, alerts, saveLog,
                   response, uniqueCafes>>

\* the 300 ms timer of swipeCard (line 215): element.remove()
CardRemoved(k) ==
    /\ k \in DOMAIN cards
    /\ cards[k].swiped
    /\ cards' = [j \in 1..(Len(cards) - 1) |->
                    IF j < k THEN cards[j] ELSE cards[j + 1]]
    /\ UNCHANGED <<clock, geoSupported, cachedLocation, savedCafes, calls,
                   geoRequests, requests, view, loading, alerts, saveLog,
                   response, uniqueCafes>>

\* showSaved(): savedBtn click (lines 233-260)
ShowSaved ==
    /\ view' = IF Len(savedCafes) = 0 THEN "savedEmpty" ELSE "saved"
    /\ cards' = << >>
    /\ loading' = ShowLoading(0, FALSE)
    /\ UNCHANGED <<clock, geoSupported, cachedLocation, savedCafes, calls,
                   geoRequests, requests, alerts, saveLog, response,
                   uniqueCafes>>

\* time passes
Tick(d) ==
    /\ clock + d * Minute <= StartTime + MaxMinutes * Minute
    /\ clock' = clock + d * Minute
    /\ UNCHANGED <<geoSupported, cachedLocation, savedCafes, calls, geoRequests,
                   requests, view, cards, loading, alerts, saveLog, response,
                   uniqueCafes>>

Next ==
    \/ GetLocation
    \/ \E i \in 1..MaxCalls, position \in Positions : GeoSuccess(i, position)
    \/ \E i \in 1..MaxCalls : GeoError(i)
    \/ \E i \in 1..MaxCalls : Responds(i, MainResponses)
    \/ \E i \in 1..MaxCalls : Fails(i)
    \/ \E k \in 1..DisplayLimit : SwipeRight(k)
    \/ \E k \in 1..DisplayLimit : SwipeLeft(k)
    \/ \E k \in 1..DisplayLimit : CardRemoved(k)
    \/ ShowSaved
    \/ \E d \in TickMinutes : Tick(d)

Spec == Init /\ [][Next]_vars

(* One search, any response body of NormResponses: the specification of    *)
(* the claims about what useLocation makes of a response.                  *)
SearchNext ==
    \/ DOMContentLoaded
    \/ \E position \in Positions : GeoSuccess(1, position)
    \/ Responds(1, NormResponses)

SearchSpec == Init /\ [][SearchNext]_vars

(* ======================= the saved list ======================= *)
SavedIds == {savedCafes[k].id : k \in 1..Len(savedCafes)}

\* the step is one saveCafe call
SaveStep == Len(saveLog') = Len(saveLog) + 1
LastSave == saveLog'[Len(saveLog')]

\* C1: a save of a cafe whose identifier no entry of the saved list has
\* appends that cafe as the last entry and reports 'saved'; so two cafes
\* with different identifiers saved into an empty list are two entries.
C1_SaveAppendsNewId ==
    [][(SaveStep /\ LastSave.id \notin SavedIds) =>
          /\ LastSave.report = "saved"
          /\ \E k \in DOMAIN cards :
                /\ cards[k].data.id = LastSave.id
                /\ savedCafes' = Append(savedCafes, cards[k].data)]_vars

\* C2: no two entries of the saved list have the same identifier, and a
\* save of a cafe whose identifier is already in the list leaves the list
\* unchanged and reports 'already saved'.
C2_SaveIdempotent ==
    /\ [](\A j, k \in 1..Len(savedCafes) :
            savedCafes[j].id = savedCafes[k].id => j = k)
    /\ [][(SaveStep /\ LastSave.id \in SavedIds) =>
            /\ savedCafes' = savedCafes
            /\ LastSave.report = "already"]_vars

\* a cafe in the list was saved again and reported as already saved
C2_Witness ==
    \E k \in 1..Len(saveLog) :
        /\ saveLog[k].report = "already"
        /\ saveLog[k].id \in SavedIds
        /\ \E j \in 1..(k - 1) :
              saveLog[j].id = saveLog[k].id /\ saveLog[j].report = "saved"

(* ======================= location acquisition ======================= *)
\* the step is a getLocation call; it is call NewCallIndex
NewCallStep == Len(calls') = Len(calls) + 1
NewCallIndex == Len(calls) + 1

\* a cached coordinate exists and is less than 10 minutes old
CacheUnderTenMinutes ==
    /\ "timestamp" \in DOMAIN cachedLocation
    /\ clock - cachedLocation.timestamp < 10 * Minute

\* call i issued a places query for the coordinate (lat, lng) in this step
QueriedAt(i, lat, lng) ==
    \E r \in requests' \ requests : r.call = i /\ r.lat = lat /\ r.lng = lng

\* what a getLocation call does, by the age of the cached coordinate
AcquisitionByCache ==
    NewCallStep =>
        IF CacheUnderTenMinutes
        THEN /\ calls'[NewCallIndex].geo = 0
             /\ geoRequests' = geoRequests
             /\ QueriedAt(NewCallIndex, cachedLocation.lat, cachedLocation.lng)
             /\ cachedLocation' = cachedLocation
        ELSE geoSupported =>
                /\ calls'[NewCallIndex].geo = 1
                /\ geoRequests' = geoRequests \cup {NewCallIndex}
                /\ requests' = requests

\* the success callback of call i stores the coordinate it searches with,
\* with the timestamp stamp
StoresWithStamp(i, stamp) ==
    (i \in geoRequests /\ calls'[i].pc = "fetching") =>
        /\ DOMAIN cachedLocation' = {"lat", "lng", "timestamp"}
        /\ cachedLocation'.timestamp = stamp
        /\ QueriedAt(i, cachedLocation'.lat, cachedLocation'.lng)

\* C3 as stated: the cached coordinate is used, without the platform
\* service, while it is under 10 minutes old; otherwise the platform
\* service is invoked and on success the new coordinate is stored with the
\* current timestamp.
C3_StoredWithCurrentTime ==
    [][/\ AcquisitionByCache
       /\ \A i \in DOMAIN calls : StoresWithStamp(i, clock')]_vars

\* C3 amended: as C3, where the browser has a geolocation service, and the
\* coordinate is stored with the timestamp read when its getLocation call
\* started, not with the time of the success callback.
C3_StoredWithCallTime ==
    [][/\ AcquisitionByCache
       /\ \A i \in DOMAIN calls : StoresWithStamp(i, calls[i].now)]_vars

\* a call acquired the coordinate from the platform, time passed, and a
\* later call searched with the cached coordinate
C3_Witness ==
    \E i, j \in DOMAIN calls :
        /\ i < j
        /\ calls[i].geo = 1 /\ calls[i].fetches = 1
        /\ calls[j].geo = 0 /\ calls[j].fetches = 1
        /\ "timestamp" \in DOMAIN cachedLocation
        /\ cachedLocation.timestamp < clock

(* ======================= the places query ======================= *)
Finished(i) == calls[i].pc \in {"displayed", "noResults", "failed"}
InFlight(i) == {r \in requests : r.call = i}

\* C4 as stated: a search whose first query succeeds with zero matching
\* records issues exactly one second query (so it ends with two requests
\* made), and no search makes more than two requests.
C4_SecondQueryOnEmpty ==
    \A i \in DOMAIN calls :
        /\ calls[i].pc = "noResults" => calls[i].fetches = 2
        /\ calls[i].fetches <= 2

\* C4 amended: a search makes exactly one places query, of radius 1500; when
\* it succeeds with zero matching records no second query is issued and the
\* search ends with the 'no cafes found' text.
C4_OneQueryPerSearch ==
    /\ [](\A i \in DOMAIN calls :
            /\ calls[i].fetches <= 1
            /\ \A r \in InFlight(i) : r.radius = 1500
            /\ calls[i].pc = "fetching" =>
                  calls[i].fetches = 1 /\ Cardinality(InFlight(i)) = 1
            /\ Finished(i) => calls[i].fetches = 1 /\ InFlight(i) = {})
    /\ [][\A i \in DOMAIN calls :
            (calls[i].pc = "fetching" /\ calls'[i].pc \in {"displayed", "noResults"}) =>
                /\ requests' = requests \ InFlight(i)
                /\ (Len(uniqueCafes') = 0) <=>
                      (calls'[i].pc = "noResults" /\ view' = "noResults")]_vars

\* a search got elements of which none is a named cafe and ended there
C4_Witness ==
    \E i \in DOMAIN calls :
        /\ calls[i].pc = "noResults" /\ calls[i].fetches = 1
        /\ HasElements(response) /\ uniqueCafes = << >>
        /\ view = "noResults" /\ requests = {}

\* C9: a query that fails in transport or with a non-success status ends
\* the search with the error text (not the 'no cafes found' text) and the
\* loading indicator cleared; the search issues no further request, then
\* or later.
C9_SearchFailed ==
    /\ [][\A i \in DOMAIN calls :
            (calls[i].pc = "fetching" /\ calls'[i].pc = "failed") =>
                /\ view' = "error" /\ cards' = << >>
                /\ loading' = 0
                /\ requests' = requests \ InFlight(i)
                /\ calls'[i].fetches = calls[i].fetches
                /\ geoRequests' = geoRequests]_vars
    /\ [][\A i \in DOMAIN calls :
            (calls[i].pc = "fetching" /\ calls'[i].pc = "noResults") =>
                view' = "noResults"]_vars
    /\ [][\A i \in DOMAIN calls :
            calls[i].pc = "failed" =>
                calls'[i] = calls[i] /\ {r \in requests' : r.call = i} = {}]_vars

\* one search failed in transport and one with a non-success status
C9_Witness ==
    /\ \E i \in DOMAIN calls : calls[i].pc = "failed" /\ calls[i].err = "transport"
    /\ \E i \in DOMAIN calls : calls[i].pc = "failed" /\ calls[i].err = "status"
    /\ view = "error" /\ loading = 0 /\ requests = {}

(* ======================= location failure ======================= *)
\* call i fails to get a location in this step
LocationFails(i) ==
    /\ calls'[i].pc = "locFailed"
    /\ i \in DOMAIN calls => calls[i].pc # "locFailed"

\* C10: when location acquisition fails (denied, timeout, unsupported) a
\* message is shown, the loading indicator is cleared, no places query is
\* issued, the cached coordinate is unchanged and no acquisition is started,
\* then or later, by that call.
C10_LocationUnavailable ==
    /\ [][\A i \in DOMAIN calls' :
            LocationFails(i) =>
                /\ Len(alerts') = Len(alerts) + 1
                /\ alerts'[Len(alerts')] \in {LocationDeniedMsg, UnsupportedMsg}
                /\ loading' = 0
                /\ requests' = requests
                /\ calls'[i].fetches = 0
                /\ cachedLocation' = cachedLocation
                /\ geoRequests' = geoRequests \ {i}
                /\ view' = view /\ cards' = cards]_vars
    /\ [][\A i \in DOMAIN calls :
            calls[i].pc = "locFailed" =>
                calls'[i] = calls[i] /\ i \notin geoRequests']_vars

\* a cached coordinate exists and the acquisition of a later call failed
C10_Witness ==
    \E i \in DOMAIN calls :
        /\ calls[i].pc = "locFailed" /\ calls[i].geo = 1
        /\ "timestamp" \in DOMAIN cachedLocation
        /\ loading = 0
        /\ alerts # << >>

(* ======================= normalisation ======================= *)
\* the raw records of the last response, in input order
Elements == IF "elements" \in DOMAIN response THEN response.elements ELSE << >>

\* the handler of the response has run
Handled == calls # << >> /\ calls[1].pc \in {"displayed", "noResults"}

\* raw record k has a non-empty name
HasName(k) ==
    /\ "tags" \in DOMAIN Elements[k]
    /\ "name" \in DOMAIN Elements[k].tags
    /\ Elements[k].tags["name"] # ""

NamedIndices == {k \in DOMAIN Elements : HasName(k)}
NamedIds == {Elements[k].id : k \in NamedIndices}

\* the first raw record with identifier id, and the first one with a name
FirstWithId(id) ==
    CHOOSE k \in DOMAIN Elements :
        Elements[k].id = id /\ \A j \in 1..(k - 1) : Elements[j].id # id
FirstNamedWithId(id) ==
    CHOOSE k \in DOMAIN Elements :
        /\ HasName(k) /\ Elements[k].id = id
        /\ \A j \in 1..(k - 1) : ~(HasName(j) /\ Elements[j].id = id)

\* normalized record a is made from raw record k
MadeFrom(a, k) ==
    /\ uniqueCafes[a].id = Elements[k].id
    /\ "tags" \in DOMAIN Elements[k]
    /\ uniqueCafes[a].tags = Elements[k].tags
    /\ uniqueCafes[a].lat = Elements[k].lat /\ uniqueCafes[a].lon = Elements[k].lon

WithId(id) == {a \in DOMAIN uniqueCafes : uniqueCafes[a].id = id}

UniqueIds ==
    \A a, b \in DOMAIN uniqueCafes :
        uniqueCafes[a].id = uniqueCafes[b].id => a = b

\* C5 as stated: no two normalized records share an identifier; of the raw
\* records with one identifier exactly one is kept, the first in input
\* order; the kept records are in input order.
C5_FirstRawKept ==
    Handled =>
        /\ UniqueIds
        /\ \A k \in DOMAIN Elements :
              /\ Cardinality(WithId(Elements[k].id)) = 1
              /\ \A a \in WithId(Elements[k].id) :
                    MadeFrom(a, FirstWithId(Elements[k].id))
        /\ \A a, b \in DOMAIN uniqueCafes :
              a < b => FirstWithId(uniqueCafes[a].id) < FirstWithId(uniqueCafes[b].id)

\* C5 amended: no two normalized records share an identifier; of the raw
\* records with one identifier that have a non-empty name exactly one is
\* kept, the first of them in input order (an identifier with no named
\* record has no normalized record); the kept records are in input order.
C5_FirstNamedKept ==
    Handled =>
        /\ UniqueIds
        /\ \A a \in DOMAIN uniqueCafes : uniqueCafes[a].id \in NamedIds
        /\ \A id \in NamedIds :
              /\ Cardinality(WithId(id)) = 1
              /\ \A a \in WithId(id) : MadeFrom(a, FirstNamedWithId(id))
        /\ \A a, b \in DOMAIN uniqueCafes :
              a < b => FirstNamedWithId(uniqueCafes[a].id)
                          < FirstNamedWithId(uniqueCafes[b].id)

\* two named raw records with one identifier and different tags were
\* handled, with other cafes around them
C5_Witness ==
    /\ Handled
    /\ Len(uniqueCafes) > 2
    /\ \E j, k \in NamedIndices :
          /\ j < k
          /\ Elements[j].id = Elements[k].id
          /\ Elements[j].tags # Elements[k].tags

\* C6: every normalized record, and every card, has a non-empty name and
\* is made from a raw record with that name; a raw record without tags,
\* without a name tag or with an empty name is in no output, and it does not
\* keep a later named record with its identifier out.
C6_NamedOnly ==
    Handled =>
        /\ \A a \in DOMAIN uniqueCafes :
              /\ uniqueCafes[a].name # ""
              /\ \E k \in NamedIndices :
                    MadeFrom(a, k) /\ uniqueCafes[a].name = Elements[k].tags["name"]
        /\ \A c \in DOMAIN cards : cards[c].data.name # ""
        /\ \A k \in NamedIndices : WithId(Elements[k].id) # {}

\* a record with an empty name came before a named record with the same
\* identifier, which was kept
C6_Witness ==
    /\ Handled
    /\ \E j \in DOMAIN Elements, k \in NamedIndices :
          /\ j < k
          /\ Elements[j].id = Elements[k].id
          /\ "tags" \in DOMAIN Elements[j]
          /\ "name" \in DOMAIN Elements[j].tags
          /\ Elements[j].tags["name"] = ""
          /\ \E a \in WithId(Elements[k].id) : MadeFrom(a, k)
    /\ \E j \in DOMAIN Elements : "tags" \notin DOMAIN Elements[j]

(* ======================= display address ======================= *)
Present(tags, f) == f \in DOMAIN tags /\ tags[f] # ""

RECURSIVE JoinPresent(_, _, _)
\* the fragments of fs that tags has, joined by single spaces after acc
JoinPresent(tags, fs, acc) ==
    IF fs = << >> THEN acc
    ELSE IF Present(tags, Head(fs))
         THEN JoinPresent(tags, Tail(fs),
                          IF acc = "" THEN tags[Head(fs)]
                          ELSE acc \o " " \o tags[Head(fs)])
         ELSE JoinPresent(tags, Tail(fs), acc)

\* house number, street, city: those present, in this order
FragmentsInOrder(tags) ==
    JoinPresent(tags, <<"addr:housenumber", "addr:street", "addr:city">>, "")

\* C7 as stated: the address is the fragments present, in the order house
\* number, street, city, and the marker exactly when none is present.
C7_NumberStreetCity ==
    Handled =>
        \A a \in DOMAIN uniqueCafes :
            uniqueCafes[a].address =
                IF FragmentsInOrder(uniqueCafes[a].tags) = ""
                THEN "Address not available"
                ELSE FragmentsInOrder(uniqueCafes[a].tags)

\* C7 amended: the address is the street, followed by a space and the house
\* number when there is one; it is the marker exactly when there is no
\* street, whatever the house number and the city; the city is never part
\* of it.
C7_StreetThenNumber ==
    Handled =>
        \A a \in DOMAIN uniqueCafes :
            LET t == uniqueCafes[a].tags
                addr == uniqueCafes[a].address
            IN  /\ (Present(t, "addr:street") /\ Present(t, "addr:housenumber"))
                      => addr = t["addr:street"] \o " " \o t["addr:housenumber"]
                /\ (Present(t, "addr:street") /\ ~Present(t, "addr:housenumber"))
                      => addr = t["addr:street"]
                /\ (addr = "Address not available") <=> ~Present(t, "addr:street")

\* a cafe with house number, street and city was normalized
C7_Witness ==
    /\ Handled
    /\ \E a \in DOMAIN uniqueCafes :
          /\ Present(uniqueCafes[a].tags, "addr:housenumber")
          /\ Present(uniqueCafes[a].tags, "addr:street")
          /\ Present(uniqueCafes[a].tags, "addr:city")
          /\ uniqueCafes[a].address = "Main St 12"

(* ======================= truncation ======================= *)
\* the number of named identifiers whose first named record comes before
\* that of id
RankOf(id) ==
    LET first == FirstNamedWithId(id)
    IN  Cardinality({Elements[k].id : k \in {j \in 1..(first - 1) : HasName(j)}})

\* C8: the cards are the first min(N, 5) normalized records in input
\* order, N being the number of named, distinct identifiers of the
\* response; nameless and repeated raw records do not count.
C8_FirstFiveShown ==
    Handled =>
        /\ Len(cards) = Min(Cardinality(NamedIds), 5)
        /\ \A c \in DOMAIN cards :
              /\ cards[c].data.id \in NamedIds
              /\ RankOf(cards[c].data.id) = c - 1
              /\ cards[c].data.name =
                    Elements[FirstNamedWithId(cards[c].data.id)].tags["name"]

\* more than five cafes after a nameless record and a repeated one among
\* the first five raw records: five cards
C8_Witness ==
    /\ Handled
    /\ Cardinality(NamedIds) > 5
    /\ Len(cards) = 5
    /\ \E j \in 1..5 : j \in DOMAIN Elements /\ ~HasName(j)
    /\ Len(Elements) > Cardinality(NamedIds) + 1

(* ======================= overlapping searches ======================= *)
\* the response of call i is handled in this step
Completes(i) ==
    /\ calls[i].pc = "fetching"
    /\ calls'[i].pc \in {"displayed", "noResults", "failed"}

\* cardsContainer after this step shows what the handler of call i made of
\* its response
ShowsOutcomeOf(i) ==
    /\ calls'[i].pc = "failed" => view' = "error" /\ cards' = << >>
    /\ calls'[i].pc = "noResults" =>
          view' = "noResults" /\ cards' = << >> /\ uniqueCafes' = << >>
    /\ calls'[i].pc = "displayed" =>
          /\ view' = "cards"
          /\ uniqueCafes' # << >>
          /\ Len(cards') = Min(Len(uniqueCafes'), 5)
          /\ \A k \in DOMAIN cards' :
                cards'[k].data.id = uniqueCafes'[k].id /\ ~cards'[k].swiped

\* C11: searches overlap and no response is filtered: a response is
\* handled whatever calls were made after its own; what is displayed after
\* that, and the loading indicator, are those of the response that arrived,
\* be it of the older search; the indicator is cleared while the searches
\* still in flight stay in flight; no request is dropped unhandled.
C11_LastResponseWins ==
    /\ [][\A i \in DOMAIN calls :
            Completes(i) =>
                /\ ShowsOutcomeOf(i)
                /\ loading' = 0
                /\ \A j \in DOMAIN calls \ {i} :
                      /\ calls'[j] = calls[j]
                      /\ {r \in requests' : r.call = j} = InFlight(j)]_vars
    /\ [][\A r \in requests \ requests' : Completes(r.call)]_vars

\* the second search showed its cafes, then the response of the first
\* search, still in flight until then, arrived with no cafe: its text is
\* what is displayed
C11_Witness ==
    /\ Len(calls) >= 2
    /\ calls[1].pc = "noResults"
    /\ calls[2].pc = "displayed"
    /\ view = "noResults" /\ cards = << >>
    /\ loading = 0

====
